---- MODULE Spec2Model ----
(***************************************************************************)
(* A model of faust.worker.Worker (src/faust/worker.py): the driver        *)
(* execute_from_commandline, the asyncio event loop it runs on, the SIGINT *)
(* handler and its _stop_on_signal task, the _stats loop, the deferred     *)
(* readiness timer and the Worker's lifecycle hooks.  The Service base     *)
(* class and the Beacon tree live in faust.utils.services, which is not    *)
(* part of the sources at hand; they are modelled from the design text.    *)
(***************************************************************************)
EXTENDS Integers, Sequences, FiniteSets, TLC

\* ---------------------------------------------------------------- bounds
MaxSigints == 2
MaxStartupCalls == 2
MaxCoroutines == 1
MaxServices == 2
MaxDepCalls == 3

\* ------------------------------------------------------ program constants
ReadyDelay == 3
StatsInterval == 5
PollInterval == 1

\* ---------------------------------------------------------------- inputs
Kinds == {"app", "svc"}
SensorIds == {"s1", "s2"}
\* Worker(*services, sensors=...): the children's kinds and the sensors.
WorkerConfigs ==
    { <<(<<>>), {}>>,
      <<(<<"app">>), {}>>,
      <<(<<"app">>), {"s1"}>>,
      <<(<<"svc", "app">>), {"s1", "s2"}>> }
\* The exceptions the code tells apart: RuntimeError with the message asyncio
\* gives a run_until_complete whose loop was stopped, any other RuntimeError,
\* any other Exception.
LoopStoppedMsg == "RuntimeError: Event loop stopped before Future completed."
ErrorKinds == {LoopStoppedMsg, "RuntimeError", "Exception"}
NoError == "none"

VARIABLES
    loop,           \* "running" | "stopped" | "closed"
    driver,         \* execute_from_commandline: "running" | "returned" | "raised"
    driverExc,      \* what escaped execute_from_commandline
    mainPc,         \* _execute_from_commandline
    mainExc,        \* the exception the main future holds
    coroutines,     \* the bootstrap coroutines' states
    services,       \* self.services: the children's kinds, in order
    sensors,        \* self.sensors
    parent,         \* the beacons' parent links (a root has none)
    ctorPc,         \* Worker.__init__: "running" | "constructed" | "failed"
    ctorIndex,      \* children __init__ has reattached
    status,         \* the Worker's lifecycle status
    should_stop,    \* the Worker's stop flag
    startPc,        \* Worker.start()
    deps,           \* the children start() was given by on_init_dependencies
    childStatus,    \* each child's lifecycle status
    sensorStatus,   \* each sensor's status
    firstStarted,   \* sensors on_first_start called maybe_start on
    attached,       \* <<child, sensor>>: app.add_sensor(sensor) was called
    addSensorCalls, \* calls of app.add_sensor(sensor), per <<child, sensor>>
    depReturns,     \* what each call of on_init_dependencies returned
    stopPc,         \* the one running Worker.stop()
    stopOwner,      \* the signal task that runs it
    stopVisited,    \* sensors on_stop called stop on in this run
    sensorStops,    \* calls of sensor.stop(), per sensor
    sigTasks,       \* the _stop_on_signal tasks, in creation order
    firstSigAt,     \* where the driver was when the first SIGINT came
    statsPc,        \* the _stats task
    printedAfterStop, \* _stats printed while should_stop was true
    wake,           \* asyncio.sleep: time left until each sleeping task wakes
    timers,         \* call_later(3.0, _on_startup_finished): time left, per call
    startupCalls,   \* calls of on_startup_finished
    elapsed,        \* time since the first of them, counted up to ReadyDelay
    spinner,        \* self.spinner is set
    readyCount,     \* number of times the ready line was printed
    readyAt         \* elapsed when it was printed first

loopVars == <<loop, driver, driverExc>>
mainVars == <<mainPc, mainExc, coroutines>>
configVars == <<services, sensors>>
beaconVars == <<parent, ctorPc, ctorIndex>>
lifeVars == <<status, should_stop>>
startVars == <<startPc, deps, childStatus, firstStarted, attached,
               addSensorCalls, depReturns>>
stopVars == <<stopPc, stopOwner, stopVisited, sensorStops>>
sigVars == <<sigTasks, firstSigAt>>
statsVars == <<statsPc, printedAfterStop>>
readyVars == <<timers, startupCalls, elapsed, spinner, readyCount, readyAt>>

vars == <<loopVars, mainVars, configVars, beaconVars, lifeVars, startVars,
          sensorStatus, stopVars, sigVars, statsVars, wake, readyVars>>

\* A child is known by its position in self.services.
Children == 1..Len(services)
\* self.apps = list(services), without the isinstance test.
apps_unfiltered == 1..Len(services)

\* self.apps = [s for s in services if isinstance(s, AppT)]
apps == {c \in Children : services[c] = "app"}

\* The tasks that sleep: the _stats task and the _stop_on_signal tasks.
StatsTask == 0
SigTaskIds == 1..MaxSigints

\* ------------------------------------------------------------ beacon tree
\* The Worker's own beacon; child c's beacon is node c; the other nodes are
\* beacons outside the Worker (a child's former parent, a child's descendant).
WorkerBeacon == 0
OtherBeacons == {MaxServices + 1, MaxServices + 2}
Nodes == {WorkerBeacon} \cup Children \cup OtherBeacons

RECURSIVE Walk(_, _, _)
Walk(p, n, k) ==
    IF k = 0 \/ n \notin DOMAIN p THEN n ELSE Walk(p, p[n], k - 1)

\* Beacon.root: the topmost ancestor, found by walking the parent links.
Root(n) == Walk(parent, n, Cardinality(Nodes))

Acyclic(p) == \A n \in DOMAIN p : Walk(p, n, Cardinality(Nodes)) \notin DOMAIN p

\* Beacon.reattach(newParent): the parent link is replaced.
Reattach(n, newParent) ==
    [m \in DOMAIN parent \cup {n} |-> IF m = n THEN newParent ELSE parent[m]]

\* The loop handling self.services[0] in every iteration.
CtorSubjectFirst(i) == 1

\* for service in self.services: the service an iteration handles.
CtorSubject(i) == i

\* Worker.__init__: service.beacon.reattach(self.beacon);
\* assert service.beacon.root is self.beacon
WorkerInit ==
    /\ ctorPc = "running"
    /\ IF ctorIndex = Len(services)
         THEN /\ ctorPc' = "constructed"
              /\ UNCHANGED <<parent, ctorIndex>>
         ELSE /\ parent' = Reattach(CtorSubject(ctorIndex + 1), WorkerBeacon)
              /\ ctorIndex' = ctorIndex + 1
              /\ ctorPc' = IF Walk(parent', CtorSubject(ctorIndex + 1),
                                   Cardinality(Nodes)) = WorkerBeacon
                             THEN "running" ELSE "failed"
    /\ UNCHANGED <<loopVars, mainVars, configVars, lifeVars, startVars,
                   sensorStatus, stopVars, sigVars, statsVars, wake,
                   readyVars>>

\* ------------------------------------------------------------ helpers
\* loop.is_running()
is_running == loop = "running"

\* A coroutine, a callback or a signal handler runs only inside the running
\* loop, while the process is inside execute_from_commandline.
CanRun == loop = "running" /\ driver = "running" /\ ctorPc = "constructed"

\* What run_until_complete gives execute_from_commandline when run_forever
\* returns: the main future's result or exception, or RuntimeError('Event loop
\* stopped before Future completed.') when the future is not done.
RunUntilComplete(pc, exc) ==
    IF pc = "done" THEN NoError
    ELSE IF pc = "failed" THEN exc
    ELSE LoopStoppedMsg

\* The except clause of execute_from_commandline: a RuntimeError whose message
\* contains 'Event loop stopped before Future completed' is swallowed.
Swallowed(exc) == exc = LoopStoppedMsg

\* execute_from_commandline: the call returns, or the exception escapes.
execute_from_commandline(exc) ==
    IF exc = NoError \/ Swallowed(exc)
      THEN <<"returned", NoError>>
      ELSE <<"raised", exc>>

\* loop.stop(): run_forever returns at the end of the iteration in which
\* stop() was called (the step that called it is the iteration's last), and
\* run_until_complete hands the main future's state to the driver.
LoopStops(pc, exc) ==
    /\ loop' = "stopped"
    /\ driver' = execute_from_commandline(RunUntilComplete(pc, exc))[1]
    /\ driverExc' = execute_from_commandline(RunUntilComplete(pc, exc))[2]

\* The main future is done: its done callback (_run_until_complete_cb) stops
\* the loop.
MainFinishes(pc, exc) ==
    /\ mainPc' = pc
    /\ mainExc' = exc
    /\ LoopStops(pc, exc)

\* on_init_dependencies without its add_sensor calls.
AddSensorsSkipped == {}

\* on_init_dependencies: for app in self.apps: for sensor in self.sensors:
\* app.add_sensor(sensor)
AddSensors == {<<a, s>> : a \in apps, s \in sensors}

\* on_init_dependencies returning self.apps.
on_init_dependencies_apps ==
    SelectSeq([c \in Children |-> c], LAMBDA c : services[c] = "app")

\* on_init_dependencies: return self.services
on_init_dependencies == [c \in Children |-> c]

\* One call of Worker.on_init_dependencies(): every app gets add_sensor for
\* every sensor, and self.services is returned.
on_init_dependencies_call ==
    /\ attached' = attached \cup AddSensors
    /\ addSensorCalls' =
         [p \in DOMAIN addSensorCalls \cup AddSensors |->
            (IF p \in DOMAIN addSensorCalls THEN addSensorCalls[p] ELSE 0)
              + (IF p \in AddSensors THEN 1 ELSE 0)]
    /\ depReturns' = Append(depReturns, on_init_dependencies)

DepSet == {deps[i] : i \in DOMAIN deps}

Sleeping == DOMAIN wake
Sleep(t, d) == [u \in DOMAIN wake \cup {t} |-> IF u = t THEN d ELSE wake[u]]
Woken(t) == [u \in DOMAIN wake \ {t} |-> wake[u]]
TimerDue == timers # <<>> /\ Head(timers) = 0
SleeperDue == \E t \in Sleeping : wake[t] = 0
Pending == timers # <<>> \/ Sleeping # {}

\* ------------------------------------------------------------ initial state
\* The state in which execute_from_commandline finds a constructed Worker.
Unstarted ==
    /\ loop = "running"
    /\ driver = "running"
    /\ driverExc = NoError
    /\ mainPc = "init"
    /\ mainExc = NoError
    /\ coroutines = [i \in 1..MaxCoroutines |-> "pending"]
    /\ status = "init"
    /\ should_stop = FALSE
    /\ startPc = "idle"
    /\ deps = <<>>
    /\ childStatus = [c \in Children |-> "init"]
    /\ sensorStatus = [s \in sensors |-> "init"]
    /\ firstStarted = {}
    /\ attached = {}
    /\ addSensorCalls = [p \in {} |-> 0]
    /\ depReturns = <<>>
    /\ stopPc = "idle"
    /\ stopOwner = 0
    /\ stopVisited = {}
    /\ sensorStops = [s \in sensors |-> 0]
    /\ sigTasks = <<>>
    /\ firstSigAt = "none"
    /\ statsPc = "none"
    /\ printedAfterStop = FALSE
    /\ wake = [t \in {} |-> 0]
    /\ timers = <<>>
    /\ startupCalls = 0
    /\ elapsed = 0
    /\ spinner = TRUE
    /\ readyCount = 0
    /\ readyAt = 0

\* Worker(*services, sensors=...) was constructed: execute_from_commandline
\* is entered on a Worker whose children sit under its beacon.
Init ==
    /\ \E cfg \in WorkerConfigs : services = cfg[1] /\ sensors = cfg[2]
    /\ parent = [c \in Children |-> WorkerBeacon]
    /\ ctorPc = "constructed"
    /\ ctorIndex = Len(services)
    /\ Unstarted

\* Worker.__init__ is entered: any children, whose beacons hang anywhere in an
\* acyclic forest that does not hold the Worker's beacon, which is new.
InitBeacon ==
    /\ services \in UNION {[1..n -> Kinds] : n \in 0..MaxServices}
    /\ sensors = {}
    /\ parent \in UNION {[S -> Nodes \ {WorkerBeacon}] :
                           S \in SUBSET (Nodes \ {WorkerBeacon})}
    /\ Acyclic(parent)
    /\ ctorPc = "running"
    /\ ctorIndex = 0
    /\ Unstarted

\* ------------------------------------------------- _execute_from_commandline
\* setproctitle, print_banner (faust_ident reads self.apps[0]: IndexError when
\* there is no app), _monitor, install_signal_handlers, then gather's tasks.
MainInit ==
    /\ CanRun /\ mainPc = "init"
    /\ IF apps = {}
         THEN MainFinishes("failed", "Exception")
         ELSE /\ mainPc' = "gather"
              /\ UNCHANGED <<mainExc, loopVars>>
    /\ UNCHANGED <<coroutines, configVars, beaconVars, lifeVars, startVars,
                   sensorStatus, stopVars, sigVars, statsVars, wake,
                   readyVars>>

CoroutineDone(i) ==
    /\ CanRun /\ mainPc = "gather"
    /\ coroutines[i] = "pending"
    /\ coroutines' = [coroutines EXCEPT ![i] = "done"]
    /\ UNCHANGED <<loopVars, mainPc, mainExc, configVars, beaconVars,
                   lifeVars, startVars, sensorStatus, stopVars, sigVars,
                   statsVars, wake, readyVars>>

\* gather (return_exceptions=False) passes the first exception to its awaiter.
CoroutineFail(i, e) ==
    /\ CanRun /\ mainPc = "gather"
    /\ coroutines[i] = "pending"
    /\ coroutines' = [coroutines EXCEPT ![i] = "failed"]
    /\ MainFinishes("failed", e)
    /\ UNCHANGED <<configVars, beaconVars, lifeVars, startVars, sensorStatus,
                   stopVars, sigVars, statsVars, wake, readyVars>>

\* ------------------------------------------------------------ Worker.start()
\* Service.start(): the service becomes starting, the children named by
\* on_init_dependencies begin to start (fan-out), then on_first_start runs.
ServiceStart ==
    /\ status' = IF status = "init" THEN "starting" ELSE status
    /\ on_init_dependencies_call
    /\ deps' = on_init_dependencies
    /\ childStatus' = [c \in Children |->
                         IF c \in {deps'[i] : i \in DOMAIN deps'}
                            /\ childStatus[c] = "init"
                           THEN "starting" ELSE childStatus[c]]
    /\ startPc' = IF sensors = {} THEN "wait" ELSE "first_start"

\* await asyncio.gather(...) returned; await self.start()
MainStart ==
    /\ CanRun /\ mainPc = "gather"
    /\ \A i \in DOMAIN coroutines : coroutines[i] = "done"
    /\ mainPc' = "start"
    /\ ServiceStart
    /\ UNCHANGED <<loopVars, mainExc, coroutines, configVars, beaconVars,
                   should_stop, firstStarted, sensorStatus, stopVars, sigVars,
                   statsVars, wake, readyVars>>

\* Sensor.maybe_start(): starts a sensor that was not started yet.
MaybeStarted(s) ==
    [sensorStatus EXCEPT ![s] = IF @ = "init" THEN "started" ELSE @]

\* on_first_start: for sensor in self.sensors: await sensor.maybe_start()
on_first_start(s) ==
    /\ CanRun /\ startPc = "first_start"
    /\ s \in sensors \ firstStarted
    /\ firstStarted' = firstStarted \cup {s}
    /\ sensorStatus' = MaybeStarted(s)
    /\ startPc' = IF firstStarted' = sensors THEN "wait" ELSE startPc
    /\ UNCHANGED <<loopVars, mainVars, configVars, beaconVars, lifeVars, deps,
                   childStatus, attached, addSensorCalls, depReturns,
                   stopVars, sigVars, statsVars, wake, readyVars>>

\* await self.start() wrapped in a try/except that goes on to the stats loop.
AwaitStartSuppressed(e) ==
    /\ mainPc' = "stats"
    /\ mainExc' = NoError
    /\ UNCHANGED loopVars

\* await self.start(): an exception of start() is not caught and ends
\* _execute_from_commandline, whose future holds it.
AwaitStartRaises(e) == MainFinishes("failed", e)

\* A failure during bring-up: start() raises it to its awaiter.
StartAborts(e) ==
    /\ startPc' = "failed"
    /\ status' = IF status = "starting" THEN "crashed" ELSE status
    /\ AwaitStartRaises(e)

\* sensor.maybe_start() raises inside on_first_start.
on_first_start_raises(s, e) ==
    /\ CanRun /\ startPc = "first_start"
    /\ s \in sensors \ firstStarted
    /\ firstStarted' = firstStarted \cup {s}
    /\ StartAborts(e)
    /\ UNCHANGED <<coroutines, configVars, beaconVars, should_stop, deps,
                   childStatus, attached, addSensorCalls, depReturns,
                   sensorStatus, stopVars, sigVars, statsVars, wake,
                   readyVars>>

ChildStarted(c) ==
    /\ CanRun /\ startPc \in {"first_start", "wait"}
    /\ c \in DepSet /\ childStatus[c] = "starting"
    /\ childStatus' = [childStatus EXCEPT ![c] = "started"]
    /\ UNCHANGED <<loopVars, mainVars, configVars, beaconVars, lifeVars,
                   startPc, deps, firstStarted, attached, addSensorCalls,
                   depReturns, sensorStatus, stopVars, sigVars, statsVars,
                   wake, readyVars>>

\* A child's start fails: start aborts on the first failure.
ChildCrashed(c, e) ==
    /\ CanRun /\ startPc \in {"first_start", "wait"}
    /\ c \in DepSet /\ childStatus[c] = "starting"
    /\ childStatus' = [childStatus EXCEPT ![c] = "crashed"]
    /\ StartAborts(e)
    /\ UNCHANGED <<coroutines, configVars, beaconVars, should_stop, deps,
                   firstStarted, attached, addSensorCalls, depReturns,
                   sensorStatus, stopVars, sigVars, statsVars, wake,
                   readyVars>>

\* start() returns once on_first_start has run and no child is still starting;
\* await asyncio.ensure_future(self._stats()) creates the stats task.
StartReturns ==
    /\ CanRun /\ mainPc = "start" /\ startPc = "wait"
    /\ \A c \in DepSet : childStatus[c] # "starting"
    /\ startPc' = "done"
    /\ status' = IF status = "starting" THEN "started" ELSE status
    /\ mainPc' = "stats"
    /\ statsPc' = "check"
    /\ UNCHANGED <<loopVars, mainExc, coroutines, configVars, beaconVars,
                   should_stop, deps, childStatus, firstStarted, attached,
                   addSensorCalls, depReturns, sensorStatus, stopVars,
                   sigVars, printedAfterStop, wake, readyVars>>

\* ------------------------------------------------------------------ _stats
\* while not self.should_stop: await asyncio.sleep(5)
stats_check ==
    /\ CanRun /\ statsPc = "check"
    /\ IF should_stop
         THEN statsPc' = "done" /\ wake' = wake
         ELSE statsPc' = "sleeping" /\ wake' = Sleep(StatsTask, StatsInterval)
    /\ UNCHANGED <<loopVars, mainVars, configVars, beaconVars, lifeVars,
                   startVars, sensorStatus, stopVars, sigVars,
                   printedAfterStop, readyVars>>

\* _stats, after its sleep: print the summary, then the loop test again.
stats_print ==
    /\ printedAfterStop' = (printedAfterStop \/ should_stop)
    /\ statsPc' = "check"

\* The statements after a task's asyncio.sleep: _stats prints,
\* _stop_on_signal goes back to its loop test.
AfterSleep(t) ==
    IF t = StatsTask
      THEN stats_print /\ UNCHANGED sigVars
      ELSE /\ sigTasks' = [sigTasks EXCEPT ![t] = "poll"]
           /\ UNCHANGED <<firstSigAt, statsVars>>

\* asyncio.sleep's timer fires and the sleeping task goes on.
Wake(t) ==
    /\ CanRun /\ t \in Sleeping /\ wake[t] = 0
    /\ wake' = Woken(t)
    /\ AfterSleep(t)
    /\ UNCHANGED <<loopVars, mainVars, configVars, beaconVars, lifeVars,
                   startVars, sensorStatus, stopVars, readyVars>>

\* The stats task is done: await self.wait_until_stopped()
MainAfterStats ==
    /\ CanRun /\ mainPc = "stats" /\ statsPc = "done"
    /\ mainPc' = "wait"
    /\ UNCHANGED <<loopVars, mainExc, coroutines, configVars, beaconVars,
                   lifeVars, startVars, sensorStatus, stopVars, sigVars,
                   statsVars, wake, readyVars>>

\* wait_until_stopped() returns once stop was signalled; the coroutine ends.
MainReturns ==
    /\ CanRun /\ mainPc = "wait" /\ should_stop
    /\ MainFinishes("done", NoError)
    /\ UNCHANGED <<coroutines, configVars, beaconVars, lifeVars, startVars,
                   sensorStatus, stopVars, sigVars, statsVars, wake,
                   readyVars>>

\* ------------------------------------------------------------ Worker.stop()
\* Service.stop() on a service that is not stopping yet: the stop flag is set
\* and on_stop runs, in the task that called stop().
BeginStop(t) ==
    /\ should_stop' = TRUE
    /\ status' = IF status = "crashed" THEN status ELSE "stopping"
    /\ stopPc' = IF sensors = {} THEN "children" ELSE "on_stop"
    /\ stopOwner' = t
    /\ stopVisited' = {}
    /\ sigTasks' = [sigTasks EXCEPT ![t] = "stopping"]

\* Service.stop(): a no-op on a service that is already stopping or stopped.
ServiceStop(t) ==
    IF should_stop
      THEN /\ sigTasks' = [sigTasks EXCEPT ![t] = "poll"]
           /\ UNCHANGED <<should_stop, status, stopPc, stopOwner, stopVisited>>
      ELSE BeginStop(t)

\* An exception leaves a _stop_on_signal task. Nothing awaits the task: the
\* exception stays in it.  _on_sigint's run_until_complete had added its done
\* callback to the task before run_forever raised; where asyncio leaves it on
\* (Python 3.6) the callback stops the loop, where it is removed it does not.
TaskFails(t) ==
    /\ sigTasks' = [sigTasks EXCEPT ![t] = "failed"]
    /\ \E kept \in BOOLEAN :
         IF kept THEN LoopStops(mainPc, mainExc) ELSE UNCHANGED loopVars

\* on_stop: for sensor in self.sensors: await sensor.stop()
on_stop(s) ==
    /\ CanRun /\ stopPc = "on_stop"
    /\ s \in sensors \ stopVisited
    /\ stopVisited' = stopVisited \cup {s}
    /\ sensorStops' = [sensorStops EXCEPT ![s] = @ + 1]
    /\ sensorStatus' = [sensorStatus EXCEPT ![s] = "stopped"]
    /\ stopPc' = IF stopVisited' = sensors THEN "children" ELSE stopPc
    /\ UNCHANGED <<loopVars, mainVars, configVars, beaconVars, lifeVars,
                   startVars, stopOwner, sigVars, statsVars, wake, readyVars>>

\* sensor.stop() raises inside on_stop: stop() raises in the task that runs it.
on_stop_raises(s) ==
    /\ CanRun /\ stopPc = "on_stop"
    /\ s \in sensors \ stopVisited
    /\ stopVisited' = stopVisited \cup {s}
    /\ sensorStops' = [sensorStops EXCEPT ![s] = @ + 1]
    /\ stopPc' = "failed"
    /\ TaskFails(stopOwner)
    /\ UNCHANGED <<mainVars, configVars, beaconVars, lifeVars, startVars,
                   sensorStatus, stopOwner, firstSigAt, statsVars, wake,
                   readyVars>>

\* After on_stop the children are stopped, in order.
StopChild(c) ==
    /\ CanRun /\ stopPc = "children"
    /\ c \in DepSet /\ childStatus[c] # "stopped"
    /\ \A d \in DepSet : d < c => childStatus[d] = "stopped"
    /\ childStatus' = [childStatus EXCEPT ![c] = "stopped"]
    /\ UNCHANGED <<loopVars, mainVars, configVars, beaconVars, lifeVars,
                   startPc, deps, firstStarted, attached, addSensorCalls,
                   depReturns, sensorStatus, stopVars, sigVars, statsVars,
                   wake, readyVars>>

\* stop() returns to _stop_on_signal.
StopReturns ==
    /\ CanRun /\ stopPc = "children"
    /\ \A c \in DepSet : childStatus[c] = "stopped"
    /\ stopPc' = "done"
    /\ status' = IF status = "crashed" THEN status ELSE "stopped"
    /\ sigTasks' = [sigTasks EXCEPT ![stopOwner] = "poll"]
    /\ UNCHANGED <<loopVars, mainVars, configVars, beaconVars, should_stop,
                   startVars, sensorStatus, stopOwner, stopVisited,
                   sensorStops, firstSigAt, statsVars, wake, readyVars>>

\* ------------------------------------------------------------ signal path
\* Where the driver is: in steady state the Worker is started and the driver
\* waits on the stats task.
Phase ==
    IF mainPc = "stats" /\ status = "started" THEN "steady" ELSE mainPc

\* _on_sigint setting the Worker's stop flag itself before it returns.
on_sigint_sets_flag ==
    /\ CanRun /\ mainPc # "init"
    /\ Len(sigTasks) < MaxSigints
    /\ sigTasks' = Append(sigTasks, "scheduled")
    /\ firstSigAt' = IF sigTasks = <<>> THEN Phase ELSE firstSigAt
    /\ should_stop' = TRUE
    /\ UNCHANGED <<loopVars, mainVars, configVars, beaconVars, status,
                   startVars, sensorStatus, stopVars, statsVars, wake,
                   readyVars>>

\* _on_sigint: ensure_future(self._stop_on_signal()) makes a new task;
\* run_until_complete raises RuntimeError (the loop is running), caught.
on_sigint ==
    /\ CanRun /\ mainPc # "init"
    /\ Len(sigTasks) < MaxSigints
    /\ sigTasks' = Append(sigTasks, "scheduled")
    /\ firstSigAt' = IF sigTasks = <<>> THEN Phase ELSE firstSigAt
    /\ UNCHANGED <<loopVars, mainVars, configVars, beaconVars, lifeVars,
                   startVars, sensorStatus, stopVars, statsVars, wake,
                   readyVars>>

\* _stop_on_signal awaiting self.on_stop() in place of self.stop().
stop_on_signal_on_stop(t) ==
    /\ CanRun
    /\ t \in DOMAIN sigTasks /\ sigTasks[t] = "scheduled"
    /\ BeginStop(t)
    /\ UNCHANGED <<loopVars, mainVars, configVars, beaconVars, startVars,
                   sensorStatus, sensorStops, firstSigAt, statsVars, wake,
                   readyVars>>

\* _stop_on_signal: logger.info(...); await self.stop()
stop_on_signal_stop(t) ==
    /\ CanRun
    /\ t \in DOMAIN sigTasks /\ sigTasks[t] = "scheduled"
    /\ ServiceStop(t)
    /\ UNCHANGED <<loopVars, mainVars, configVars, beaconVars, startVars,
                   sensorStatus, sensorStops, firstSigAt, statsVars, wake,
                   readyVars>>

\* _stop_on_signal: while self.loop.is_running(): self.loop.stop();
\* await asyncio.sleep(1.0); after the loop: self.loop.close(); raise SystemExit()
stop_on_signal_poll(t) ==
    /\ CanRun
    /\ t \in DOMAIN sigTasks /\ sigTasks[t] = "poll"
    /\ IF is_running
         THEN /\ LoopStops(mainPc, mainExc)
              /\ sigTasks' = [sigTasks EXCEPT ![t] = "sleeping"]
              /\ wake' = Sleep(t, PollInterval)
         ELSE /\ loop' = "closed"
              /\ sigTasks' = [sigTasks EXCEPT ![t] = "exited"]
              /\ driver' = "raised"
              /\ driverExc' = "SystemExit"
              /\ wake' = wake
    /\ UNCHANGED <<mainVars, configVars, beaconVars, lifeVars, startVars,
                   sensorStatus, stopVars, firstSigAt, statsVars, readyVars>>

\* ---------------------------------------------------------- readiness timer
\* on_startup_finished: self.loop.call_later(3.0, self._on_startup_finished)
on_startup_finished ==
    /\ CanRun /\ startPc = "done"
    /\ startupCalls < MaxStartupCalls
    /\ startupCalls' = startupCalls + 1
    /\ timers' = Append(timers, ReadyDelay)
    /\ UNCHANGED <<loopVars, mainVars, configVars, beaconVars, lifeVars,
                   startVars, sensorStatus, stopVars, sigVars, statsVars,
                   wake, elapsed, spinner, readyCount, readyAt>>

\* _on_startup_finished without its test of self.spinner.
SpinnerNotTested == TRUE

\* _on_startup_finished: if self.spinner:
SpinnerSet == spinner

\* _on_startup_finished, run by its timer: the spinner is finished and
\* dropped and the ready line printed, if the spinner is still there.
on_startup_finished_timer ==
    /\ CanRun /\ TimerDue
    /\ timers' = Tail(timers)
    /\ IF SpinnerSet
         THEN /\ spinner' = FALSE
              /\ readyCount' = readyCount + 1
              /\ readyAt' = IF readyCount = 0 THEN elapsed ELSE readyAt
         ELSE UNCHANGED <<spinner, readyCount, readyAt>>
    /\ UNCHANGED <<loopVars, mainVars, configVars, beaconVars, lifeVars,
                   startVars, sensorStatus, stopVars, sigVars, statsVars,
                   wake, startupCalls, elapsed>>

\* ------------------------------------------------------------------- time
\* One time unit passes while the loop waits for its next deadline; a due
\* timer runs first.
Tick ==
    /\ CanRun /\ Pending
    /\ ~TimerDue /\ ~SleeperDue
    /\ wake' = [t \in DOMAIN wake |-> wake[t] - 1]
    /\ timers' = [i \in DOMAIN timers |-> timers[i] - 1]
    /\ elapsed' = IF startupCalls > 0 /\ elapsed < ReadyDelay
                    THEN elapsed + 1 ELSE elapsed
    /\ UNCHANGED <<loopVars, mainVars, configVars, beaconVars, lifeVars,
                   startVars, sensorStatus, stopVars, sigVars, statsVars,
                   startupCalls, spinner, readyCount, readyAt>>

Next ==
    \/ MainInit
    \/ \E i \in DOMAIN coroutines : CoroutineDone(i)
    \/ \E i \in DOMAIN coroutines, e \in ErrorKinds : CoroutineFail(i, e)
    \/ MainStart
    \/ \E s \in sensors : on_first_start(s)
    \/ \E s \in sensors, e \in ErrorKinds : on_first_start_raises(s, e)
    \/ \E c \in Children : ChildStarted(c)
    \/ \E c \in Children, e \in ErrorKinds : ChildCrashed(c, e)
    \/ StartReturns
    \/ stats_check
    \/ \E t \in Sleeping : Wake(t)
    \/ MainAfterStats
    \/ MainReturns
    \/ on_sigint
    \/ \E t \in SigTaskIds : stop_on_signal_stop(t)
    \/ \E t \in SigTaskIds : stop_on_signal_poll(t)
    \/ \E s \in sensors : on_stop(s)
    \/ \E s \in sensors : on_stop_raises(s)
    \/ \E c \in Children : StopChild(c)
    \/ StopReturns
    \/ on_startup_finished
    \/ on_startup_finished_timer
    \/ Tick

\* on_init_dependencies called on a constructed Worker, any number of times.
DepsNext ==
    /\ ctorPc = "constructed"
    /\ Len(depReturns) < MaxDepCalls
    /\ on_init_dependencies_call
    /\ UNCHANGED <<loopVars, mainVars, configVars, beaconVars, lifeVars,
                   startPc, deps, childStatus, firstStarted, sensorStatus,
                   stopVars, sigVars, statsVars, wake, readyVars>>

\* A constructed Worker with any children and any sensors.
InitDeps ==
    /\ services \in UNION {[1..n -> Kinds] : n \in 0..MaxServices}
    /\ sensors \in SUBSET SensorIds
    /\ parent = [c \in Children |-> WorkerBeacon]
    /\ ctorPc = "constructed"
    /\ ctorIndex = Len(services)
    /\ Unstarted

\* The driver and everything it runs, from a constructed Worker.
Spec == Init /\ [][Next]_vars

\* Worker.__init__ alone, from any beacon forest.
SpecBeacon == InitBeacon /\ [][WorkerInit]_vars

\* Worker.on_init_dependencies alone, called again and again.
SpecDeps == InitDeps /\ [][DepsNext]_vars

\* ------------------------------------------------------------------ claims
LiveSigTasks ==
    {t \in DOMAIN sigTasks :
        sigTasks[t] \in {"scheduled", "stopping", "poll", "sleeping"}}

\* C1: after a SIGINT delivered in steady state, once the driver has left
\* execute_from_commandline the shutdown has run to its end: stop() was
\* invoked, the loop was closed and SystemExit was raised by _stop_on_signal
\* (stated for the runs in which stop() has returned without raising).
C1_ShutdownRunsToItsEnd ==
    (/\ firstSigAt = "steady" /\ driver # "running"
     /\ stopPc = "done"
     /\ \A t \in DOMAIN sigTasks : sigTasks[t] # "failed")
        => /\ should_stop
           /\ loop = "closed"
           /\ driver = "raised" /\ driverExc = "SystemExit"

\* C2: at every reachable state at most one _stop_on_signal task exists
\* (scheduled or running), whatever the number of SIGINT deliveries.
C2_AtMostOneStopTask == Cardinality(LiveSigTasks) <= 1

\* C3: _stats prints no summary once should_stop is true.
C3_NoStatsAfterStop == ~printedAfterStop

\* C4: the ready transition takes effect at most once, never earlier than
\* ReadyDelay after the first on_startup_finished call, and it has taken effect
\* as soon as one of the timers has run: exactly once, however many calls.
C4_ReadyOnceAfterDelay ==
    /\ readyCount <= 1
    /\ readyCount = 1 => readyAt >= ReadyDelay
    /\ Len(timers) < startupCalls => readyCount = 1 /\ ~spinner

\* C4 witness: two calls, both timers have run, the line was printed once.
C4_Witness ==
    startupCalls >= 2 /\ timers = <<>> /\ readyCount = 1

\* C5: a second stop() on the Worker has no further effect: no sensor gets a
\* second stop() call from on_stop, and no call but the first can raise.
C5_StopIdempotent ==
    /\ \A s \in sensors : sensorStops[s] <= 1
    /\ \A t \in DOMAIN sigTasks : sigTasks[t] = "failed" => t = stopOwner

\* C5 witness: a second task's stop() has returned while the first task's
\* stop() is still running, after on_stop stopped a sensor.
C5_Witness ==
    /\ stopPc \in {"on_stop", "children"}
    /\ \E s \in sensors : sensorStops[s] = 1
    /\ \E t \in DOMAIN sigTasks : t # stopOwner /\ sigTasks[t] = "poll"

\* The beacons at or below n.
Under(n) ==
    {d \in Nodes : \E k \in 0..Cardinality(Nodes) : Walk(parent, d, k) = n}

\* C6: every child __init__ has handled has the Worker's beacon as its root,
\* and so has every beacon below it; after construction that is every child;
\* construction fails only at a child whose root is not the Worker's beacon.
C6_ChildrenUnderWorkerBeacon ==
    /\ ctorPc # "failed" =>
         \A c \in 1..ctorIndex : \A d \in Under(c) : Root(d) = WorkerBeacon
    /\ ctorPc = "constructed" =>
         \A c \in Children : Root(c) = WorkerBeacon
    /\ ctorPc = "failed" =>
         /\ Root(ctorIndex) # WorkerBeacon
         /\ \A c \in 1..(ctorIndex - 1) : Root(c) = WorkerBeacon

\* C6 witness: a Worker constructed with two children, one of which had a
\* beacon below its own.
C6_Witness ==
    /\ ctorPc = "constructed" /\ Len(services) = 2
    /\ \E d \in OtherBeacons : d \in DOMAIN parent /\ parent[d] \in Children

\* C7: when a bootstrap coroutine has failed, start() is never invoked, the
\* stats loop is never launched and the failure leaves
\* execute_from_commandline.
C7_BootstrapFailureIsFatal ==
    ((\E i \in DOMAIN coroutines : coroutines[i] = "failed")
       /\ driver # "running")
        => /\ startPc = "idle" /\ statsPc = "none"
           /\ driver = "raised" /\ driverExc = mainExc

\* C8: an error raised on the signal-shutdown path, other than the loop being
\* stopped, leaves execute_from_commandline.
C8_StopErrorsSurface ==
    ((\E t \in DOMAIN sigTasks : sigTasks[t] = "failed")
       /\ driver # "running")
        => driver = "raised" /\ driverExc = "Exception"

\* C9: every child has begun to start when on_first_start starts a sensor and
\* when it completes; a child is stopped only after on_stop has stopped every
\* sensor.
C9_StartStopOrder ==
    /\ (firstStarted # {} \/ startPc \in {"wait", "done"})
         => \A c \in Children : childStatus[c] # "init"
    /\ \A c \in Children :
         childStatus[c] = "stopped"
           => stopVisited = sensors /\ \A s \in sensors : sensorStops[s] >= 1

\* C9 witness: a Worker with two children and sensors, started, then stopped
\* down to a child.
C9_Witness ==
    /\ startPc = "done" /\ Len(services) = 2 /\ sensors # {}
    /\ \E c \in Children : childStatus[c] = "stopped"

\* C10: every sensor is attached to every app before a child or a sensor
\* starts, and a started Worker has all its sensors started.
C10_SensorsAttachedThenStarted ==
    /\ (firstStarted # {} \/ \E c \in Children : childStatus[c] # "init")
         => \A a \in apps, s \in sensors : <<a, s>> \in attached
    /\ status = "started" => \A s \in sensors : sensorStatus[s] = "started"

\* C10 witness: a started Worker with an app and two sensors.
C10_Witness ==
    /\ status = "started" /\ apps # {} /\ Cardinality(sensors) = 2
    /\ attached # {}

\* C11: when bring-up has failed (a child's start or a sensor's maybe_start
\* in on_first_start raised), the failure has reached the driver coroutine
\* _execute_from_commandline, which ended with it and with it the loop's run;
\* the Worker is not started, the stats loop was never launched, and the
\* ready transition was neither scheduled nor carried out.
C11_StartupFailureIsFatal ==
    startPc = "failed" =>
        /\ mainPc = "failed" /\ mainExc \in ErrorKinds
        /\ driver # "running" /\ loop = "stopped"
        /\ driver = "raised" => driverExc = mainExc
        /\ status # "started" /\ statsPc = "none"
        /\ startupCalls = 0 /\ timers = <<>> /\ readyCount = 0 /\ spinner

\* C11 witness: on_first_start failed at its second sensor, after a child
\* had started.
C11_Witness ==
    /\ startPc = "failed" /\ Cardinality(firstStarted) = 2
    /\ \E c \in Children : childStatus[c] = "started"

\* C12: at most one _on_startup_finished timer is pending at any time, and
\* none is pending (none was scheduled) once the ready transition has fired.
C12_AtMostOnePendingTimer ==
    /\ Len(timers) <= 1
    /\ readyCount > 0 => timers = <<>>

\* C13: a _stop_on_signal task has requested loop.stop() (and sleeps) only
\* when no call of Worker.stop() is still under way, and loop.close() is
\* called only on a loop that does not report itself running.
C13_ForcedOnlyAfterCooperativeStop ==
    [][/\ \A t \in DOMAIN sigTasks' :
             sigTasks'[t] = "sleeping" => stopPc' \in {"done", "failed"}
       /\ loop' = "closed" => loop # "running"]_vars

\* C14: the step that is _on_sigint adds one scheduled task and changes
\* nothing else; the stop flag and the steps of stop() change only in a step
\* of a _stop_on_signal task that was scheduled before.
C14_SigintOnlyEnqueues ==
    [][/\ Len(sigTasks') > Len(sigTasks) =>
             /\ sigTasks' = Append(sigTasks, "scheduled")
             /\ UNCHANGED <<loopVars, mainVars, configVars, beaconVars,
                            lifeVars, startVars, sensorStatus, stopVars,
                            statsVars, wake, timers, startupCalls, spinner,
                            readyCount>>
       /\ (should_stop' # should_stop \/ stopVars' # stopVars) =>
             \E t \in DOMAIN sigTasks :
                 /\ sigTasks[t] \in {"scheduled", "stopping"}
                 /\ Len(sigTasks') = Len(sigTasks)]_vars

\* C14 witness: a SIGINT was handled in steady state and its task has not
\* run yet: the Worker is started as before, the stop flag is not set.
C14_Witness ==
    /\ \E t \in DOMAIN sigTasks : sigTasks[t] = "scheduled"
    /\ status = "started" /\ ~should_stop /\ stopPc = "idle"

\* C15: when a stop() that a SIGINT in steady state began has returned and
\* the process has left the loop, the stats loop has exited; the driver
\* coroutine is at wait_until_stopped only after the stats loop has exited.
C15_StatsExitsOnStop ==
    /\ (firstSigAt = "steady" /\ stopPc = "done" /\ driver # "running")
          => statsPc = "done"
    /\ mainPc \in {"wait", "done"} => statsPc = "done"

\* C16: however often on_init_dependencies is called, add_sensor is called
\* once for an app and a sensor, each app has exactly the Worker's sensors
\* attached, and every call returns the same child sequence.
C16_InitDependenciesIdempotent ==
    /\ \A p \in DOMAIN addSensorCalls : addSensorCalls[p] <= 1
    /\ depReturns # <<>> =>
          attached = {<<a, s>> : a \in {c \in Children : services[c] = "app"},
                                s \in sensors}
    /\ \A i, j \in DOMAIN depReturns : depReturns[i] = depReturns[j]

C18_NoStartAfterSignalStop ==
    [][/\ (sigTasks' # sigTasks \/ coroutines' # coroutines) => mainPc # "init"
       /\ (should_stop /\ firstSigAt \in {"gather", "start"}) =>
             /\ startPc = "idle" => startPc' = "idle"
             /\ statsPc = "none" => statsPc' = "none"]_vars

\* C19: when a stop() that began in steady state is over, on_stop has called
\* stop on every sensor on_first_start had called maybe_start on.
C19_StartedSensorsAreStopped ==
    (firstSigAt = "steady" /\ stopPc \in {"done", "failed"})
        => \A s \in firstStarted : sensorStops[s] >= 1

\* C20: add_sensor is called on application children only, with the Worker's
\* sensors; what start() gets from on_init_dependencies is every child,
\* application or not, in construction order.
C20_SensorsOnAppsDepsAllChildren ==
    /\ \A p \in attached : services[p[1]] = "app" /\ p[2] \in sensors
    /\ startPc # "idle" =>
          /\ Len(deps) = Len(services)
          /\ \A i \in DOMAIN deps : deps[i] = i

\* C20 witness: a Worker whose first child is not an application was
\* started with sensors.
C20_Witness ==
    /\ startPc = "done" /\ Len(services) = 2 /\ services[1] = "svc"
    /\ attached # {} /\ Len(deps) = 2

====
